---- MODULE Spec2Model ----
(***************************************************************************)
(* Model of src/client/models.rs of blivedm_rs: the data models of the     *)
(* Bilibili live danmaku WebSocket client (AuthMessage, GiftData, Medal,   *)
(* DanmuUser, BiliMessage, MsgHead), with the frame-header parser and the  *)
(* connection state machine, which live outside that file, taken from the  *)
(* design document.                                                        *)
(*                                                                         *)
(* Strings are sequences of one-character strings, so that parsing and     *)
(* formatting are computed character by character.  Option<T> is a         *)
(* sequence of length 0 (None) or 1 (Some).                                *)
(***************************************************************************)
EXTENDS Integers, Sequences, FiniteSets

VARIABLES
    map,        \* the session map handed to AuthMessage::from
    auth_pc,    \* position in the auth pipeline: start, built, sent, read, panicked
    auth,       \* the AuthMessage built by AuthMessage::from (Option)
    auth_wire,  \* the serialized auth payload, a JSON object (Option)
    auth_back,  \* the result of deserializing auth_wire
    payload,    \* the JSON object of a gift command's data
    gift_pc,    \* start, parsed, defaulted
    gift_result, \* the Result<GiftData> of building the gift (Option)
    name_in,    \* the display name handed to DanmuUser::new
    user_pc,    \* start, built, shown
    user,       \* the DanmuUser built (Option)
    shown,      \* the text Display wrote for it (Option)
    event,      \* the last BiliMessage constructed (Option)
    wire_hdr,   \* the 16 bytes of a frame header as received
    head_pc,    \* start, accepted, rejected
    hdr_fields, \* the five header fields as decoded into MsgHead's field types
    head,       \* the MsgHead returned by the header parser (Option)
    conn,       \* the connection state
    prev,       \* the connection state before the last step
    last_step,  \* the handler that took the last step
    last_in,    \* the last inbound packet handled: operation and code
    missed,     \* heartbeat intervals elapsed without a HEARTBEAT_REPLY
    attempts,   \* connection attempts made so far
    emitted     \* events handed to the consumer so far

authVars == <<map, auth_pc, auth, auth_wire, auth_back>>
giftVars == <<payload, gift_pc, gift_result>>
userVars == <<name_in, user_pc, user, shown>>
eventVars == <<event>>
headVars == <<wire_hdr, head_pc, hdr_fields, head>>
connVars == <<conn, prev, last_step, last_in, missed, attempts, emitted>>

vars == <<authVars, giftVars, userVars, eventVars, headVars, connVars>>

nonAuthVars == <<giftVars, userVars, eventVars, headVars, connVars>>
nonGiftVars == <<authVars, userVars, eventVars, headVars, connVars>>
nonUserVars == <<authVars, giftVars, eventVars, headVars, connVars>>
nonEventVars == <<authVars, giftVars, userVars, headVars, connVars>>
nonHeadVars == <<authVars, giftVars, userVars, eventVars, connVars>>
nonConnVars == <<authVars, giftVars, userVars, eventVars, headVars>>

-----------------------------------------------------------------------------
(* Option and Result *)

None == <<>>
Some(x) == <<x>>
IsSome(o) == Len(o) = 1
Unwrap(o) == o[1]
Opt(S) == {None} \cup {Some(x) : x \in S}

Ok(v) == [ok |-> TRUE, val |-> v]
Err(v) == [ok |-> FALSE, val |-> v]

-----------------------------------------------------------------------------
(* Bounds of the model *)

\* Longest string enumerated over Alphabet for the uid and room_id entries.
MaxStrLen == 2

\* Width at which u64 is modelled.  TLC's integers are 32-bit, so the 64-bit
\* width is scaled down; the overflow checks are the real ones.
U64Bits == 17

U64Max == 2^U64Bits - 1

Alphabet == {"1", "9", "+", "a"}

StringsUpTo(n) == UNION {[1..k -> Alphabet] : k \in 0..n}

\* Longer entries: the test fixture, leading zeros, a sign, values around the
\* top of the modelled u64 range.
FixtureStrings ==
    { <<"1","2","3","4","5">>, <<"6","7","8","9","0">>, <<"0","0","7">>,
      <<"-","1">>, <<"1","3","1","0","7","1">>, <<"1","3","1","0","7","2">>,
      <<"2","6","2","1","4","3">>, <<"9","9","9","9","9","9">> }

NumStrings == StringsUpTo(MaxStrLen) \cup FixtureStrings

TestToken == <<"t","e","s","t","_","t","o","k","e","n">>

Tokens == { <<>>, <<"1">>, TestToken }

ExtraValues == { <<"x">> }

-----------------------------------------------------------------------------
(* str::parse::<u64>, as called by AuthMessage::from *)

\* char::to_digit(10): -1 stands for None.
ToDigit(c) ==
    CASE c = "0" -> 0 [] c = "1" -> 1 [] c = "2" -> 2 [] c = "3" -> 3
      [] c = "4" -> 4 [] c = "5" -> 5 [] c = "6" -> 6 [] c = "7" -> 7
      [] c = "8" -> 8 [] c = "9" -> 9 [] OTHER -> -1

RECURSIVE ParseDigits(_, _)
\* The digit loop: result = result.checked_mul(10)?.checked_add(d)?
ParseDigits(s, acc) ==
    IF s = <<>> THEN Ok(acc)
    ELSE LET d == ToDigit(Head(s)) IN
         IF d < 0 THEN Err("InvalidDigit")
         ELSE IF acc * 10 > U64Max THEN Err("PosOverflow")
         ELSE IF acc * 10 + d > U64Max THEN Err("PosOverflow")
         ELSE ParseDigits(Tail(s), acc * 10 + d)

\* An unsigned type strips one leading '+' and nothing else; "" and a lone
\* sign are errors.
ParseU64(s) ==
    IF s = <<>> THEN Err("Empty")
    ELSE IF Len(s) = 1 /\ Head(s) \in {"+", "-"} THEN Err("InvalidDigit")
    ELSE IF Head(s) = "+" THEN ParseDigits(Tail(s), 0)
    ELSE ParseDigits(s, 0)

-----------------------------------------------------------------------------
(* AuthMessage *)

AuthKeys == {"uid", "room_id", "token"}

\* HashMap::get
MapGet(m, k) == IF k \in DOMAIN m THEN Some(m[k]) ELSE None

MkAuth(uid, roomid, protover, platform, type_, key) ==
    [uid |-> uid, roomid |-> roomid, protover |-> protover,
     platform |-> platform, type_ |-> type_, key |-> key]

AuthProtover == 3
AuthPlatform == <<"w","e","b">>
AuthType == 2

\* from with the two ids taken from each other's entry.
AuthMessageFrom_SwappedIds(m) ==
    IF ~IsSome(MapGet(m, "uid")) THEN Err("panic")
    ELSE IF ~ParseU64(Unwrap(MapGet(m, "uid"))).ok THEN Err("panic")
    ELSE IF ~IsSome(MapGet(m, "room_id")) THEN Err("panic")
    ELSE IF ~ParseU64(Unwrap(MapGet(m, "room_id"))).ok THEN Err("panic")
    ELSE IF ~IsSome(MapGet(m, "token")) THEN Err("panic")
    ELSE Ok(MkAuth(ParseU64(Unwrap(MapGet(m, "room_id"))).val,
                   ParseU64(Unwrap(MapGet(m, "uid"))).val,
                   3, <<"w","e","b">>, 2,
                   Unwrap(MapGet(m, "token"))))

\* from with a missing token defaulted to the empty string instead of
\* unwrapped.
AuthMessageFrom_TokenDefaulted(m) ==
    IF ~IsSome(MapGet(m, "uid")) THEN Err("panic")
    ELSE IF ~ParseU64(Unwrap(MapGet(m, "uid"))).ok THEN Err("panic")
    ELSE IF ~IsSome(MapGet(m, "room_id")) THEN Err("panic")
    ELSE IF ~ParseU64(Unwrap(MapGet(m, "room_id"))).ok THEN Err("panic")
    ELSE Ok(MkAuth(ParseU64(Unwrap(MapGet(m, "uid"))).val,
                   ParseU64(Unwrap(MapGet(m, "room_id"))).val,
                   3, <<"w","e","b">>, 2,
                   IF IsSome(MapGet(m, "token")) THEN Unwrap(MapGet(m, "token")) ELSE <<>>))

\* AuthMessage::from: the fields are evaluated in order and each unwrap()
\* panics on None / Err.  Ok(message) is the return, Err("panic") the panic.
AuthMessageFrom(m) ==
    IF ~IsSome(MapGet(m, "uid")) THEN Err("panic")
    ELSE IF ~ParseU64(Unwrap(MapGet(m, "uid"))).ok THEN Err("panic")
    ELSE IF ~IsSome(MapGet(m, "room_id")) THEN Err("panic")
    ELSE IF ~ParseU64(Unwrap(MapGet(m, "room_id"))).ok THEN Err("panic")
    ELSE IF ~IsSome(MapGet(m, "token")) THEN Err("panic")
    ELSE Ok(MkAuth(ParseU64(Unwrap(MapGet(m, "uid"))).val,
                   ParseU64(Unwrap(MapGet(m, "room_id"))).val,
                   AuthProtover, AuthPlatform, AuthType,
                   Unwrap(MapGet(m, "token"))))

-----------------------------------------------------------------------------
(* JSON values: a scalar carries its number in n or its string in s, an    *)
(* object carries its members in o.                                        *)

NoMembers == [k \in {} |-> 0]
JNum(n) == [t |-> "num", n |-> n, s |-> <<>>, o |-> NoMembers]
JStr(s) == [t |-> "str", n |-> 0, s |-> s, o |-> NoMembers]
JNull == [t |-> "null", n |-> 0, s |-> <<>>, o |-> NoMembers]
JObj(o) == [t |-> "obj", n |-> 0, s |-> <<>>, o |-> o]

\* The member names #[derive(Serialize, Deserialize)] gives AuthMessage: the
\* field identifiers, as no field carries a serde rename.
AuthFieldNames == {"uid", "roomid", "protover", "platform", "type_", "key"}

\* derive(Serialize) for AuthMessage
AuthSerialize(a) ==
    [k \in AuthFieldNames |->
        CASE k = "uid" -> JNum(a.uid)
          [] k = "roomid" -> JNum(a.roomid)
          [] k = "protover" -> JNum(a.protover)
          [] k = "platform" -> JStr(a.platform)
          [] k = "type_" -> JNum(a.type_)
          [] k = "key" -> JStr(a.key)]

I32Max == 2147483647

IsU64(j) == j.t = "num" /\ j.n >= 0 /\ j.n <= U64Max
IsI32(j) == j.t = "num" /\ j.n >= -I32Max - 1 /\ j.n <= I32Max
IsString(j) == j.t = "str"

\* derive(Deserialize) for AuthMessage: every member must be present under
\* its field name and of its field's type; other members are ignored.
AuthDeserialize(obj) ==
    IF \E k \in AuthFieldNames : k \notin DOMAIN obj THEN Err("missing field")
    ELSE IF ~(IsU64(obj["uid"]) /\ IsU64(obj["roomid"]) /\ IsI32(obj["protover"])
              /\ IsString(obj["platform"]) /\ IsI32(obj["type_"])
              /\ IsString(obj["key"])) THEN Err("invalid type")
    ELSE Ok(MkAuth(obj["uid"].n, obj["roomid"].n, obj["protover"].n,
                   obj["platform"].s, obj["type_"].n, obj["key"].s))

-----------------------------------------------------------------------------
(* The auth pipeline: build the request from the session map, serialize it *)
(* for sending, read it back.                                              *)

\* The map with exactly the given entries present.
MkMap(u, r, t, e) ==
    [k \in {x \in {"uid"} : IsSome(u)} \cup {x \in {"room_id"} : IsSome(r)}
            \cup {x \in {"token"} : IsSome(t)} \cup {x \in {"lang"} : IsSome(e)} |->
        CASE k = "uid" -> Unwrap(u)
          [] k = "room_id" -> Unwrap(r)
          [] k = "token" -> Unwrap(t)
          [] k = "lang" -> Unwrap(e)]

SessionMaps ==
    { MkMap(u, r, t, e) : u \in Opt(NumStrings), r \in Opt(NumStrings),
                          t \in Opt(Tokens), e \in Opt(ExtraValues) }

AuthInit ==
    /\ map \in SessionMaps
    /\ auth_pc = "start"
    /\ auth = None
    /\ auth_wire = None
    /\ auth_back = None

\* No auth request is being built.
AuthIdle ==
    /\ map = MkMap(None, None, None, None)
    /\ auth_pc = "idle"
    /\ auth = None
    /\ auth_wire = None
    /\ auth_back = None

\* let auth = AuthMessage::from(&map);
AuthFrom ==
    /\ auth_pc = "start"
    /\ LET r == AuthMessageFrom(map) IN
         IF r.ok THEN /\ auth' = Some(r.val)
                      /\ auth_pc' = "built"
         ELSE /\ auth' = None
              /\ auth_pc' = "panicked"
    /\ UNCHANGED <<map, auth_wire, auth_back, nonAuthVars>>

\* serde_json::to_value(&auth)
AuthSend ==
    /\ auth_pc = "built"
    /\ auth_wire' = Some(AuthSerialize(Unwrap(auth)))
    /\ auth_pc' = "sent"
    /\ UNCHANGED <<map, auth, auth_back, nonAuthVars>>

\* serde_json::from_value::<AuthMessage>(wire)
AuthRead ==
    /\ auth_pc = "sent"
    /\ auth_back' = Some(AuthDeserialize(Unwrap(auth_wire)))
    /\ auth_pc' = "read"
    /\ UNCHANGED <<map, auth, auth_wire, nonAuthVars>>

AuthNext == AuthFrom \/ AuthSend \/ AuthRead

-----------------------------------------------------------------------------
(* GiftData, CoinType, Medal *)

MkMedal(name, level) == [name |-> name, level |-> level]

MkGift(gift_name, uname, uid, num, price, coin_type, medal_info, medal) ==
    [gift_name |-> gift_name, uname |-> uname, uid |-> uid, num |-> num,
     price |-> price, coin_type |-> coin_type, medal_info |-> medal_info,
     medal |-> medal]

\* #[default] of CoinType
CoinTypeDefault == "Silver"

\* derive(Default) for GiftData: every field's own default.
GiftDataDefault == MkGift(<<>>, <<>>, 0, 0, 0, CoinTypeDefault, None, None)

\* The member names Medal accepts for each field: the field identifier and
\* its serde alias.
MedalNameKeys == {"name", "medal_name"}
MedalLevelKeys == {"level", "medal_level"}

\* i64 from a JSON number (the numbers of the model are all within i64).
IsI64(j) == j.t = "num"

\* derive(Deserialize) for Medal: each field exactly once, under either of
\* its names (both names present is "duplicate field"), of the field's type.
MedalDeserialize(j) ==
    IF j.t # "obj" THEN Err("invalid type")
    ELSE LET names == DOMAIN j.o \cap MedalNameKeys
             levels == DOMAIN j.o \cap MedalLevelKeys
         IN IF Cardinality(names) > 1 \/ Cardinality(levels) > 1
                THEN Err("duplicate field")
            ELSE IF names = {} \/ levels = {} THEN Err("missing field")
            ELSE LET n == j.o[CHOOSE k \in names : TRUE]
                     l == j.o[CHOOSE k \in levels : TRUE]
                 IN IF IsString(n) /\ IsI64(l) THEN Ok(MkMedal(n.s, l.n))
                    ELSE Err("invalid type")

\* A gift mapping that reads one medal for both fields, "medal_info" first and
\* "medal" as its fallback.
OptionMedalDeserialize_SharedKey(obj, k) ==
    LET from == IF "medal_info" \in DOMAIN obj THEN "medal_info" ELSE "medal" IN
    IF from \notin DOMAIN obj THEN Ok(None)
    ELSE IF obj[from].t = "null" THEN Ok(None)
    ELSE IF MedalDeserialize(obj[from]).ok THEN Ok(Some(MedalDeserialize(obj[from]).val))
    ELSE Err("invalid medal")

\* Option<Medal> as a struct field: an absent member and null are None, any
\* other value must deserialize as a Medal.
OptionMedalDeserialize(obj, k) ==
    IF k \notin DOMAIN obj THEN Ok(None)
    ELSE IF obj[k].t = "null" THEN Ok(None)
    ELSE IF MedalDeserialize(obj[k]).ok THEN Ok(Some(MedalDeserialize(obj[k]).val))
    ELSE Err("invalid medal")

\* CoinType with rename_all = "lowercase"
CoinTypeDeserialize(j) ==
    IF j.t # "str" THEN Err("invalid type")
    ELSE IF j.s = <<"s","i","l","v","e","r">> THEN Ok("Silver")
    ELSE IF j.s = <<"g","o","l","d">> THEN Ok("Gold")
    ELSE Err("unknown variant")

\* The members derive(Deserialize) requires of a GiftData: every field that
\* is not an Option, under its (renamed) name.  No field has serde(default).
GiftRequiredKeys == {"giftName", "uname", "uid", "num", "price", "coin_type"}

\* derive(Deserialize) for GiftData
GiftDeserialize(obj) ==
    IF \E k \in GiftRequiredKeys : k \notin DOMAIN obj THEN Err("missing field")
    ELSE IF ~(IsString(obj["giftName"]) /\ IsString(obj["uname"]) /\ IsU64(obj["uid"])
              /\ IsI64(obj["num"]) /\ IsI64(obj["price"])
              /\ CoinTypeDeserialize(obj["coin_type"]).ok) THEN Err("invalid type")
    ELSE IF ~OptionMedalDeserialize(obj, "medal_info").ok THEN Err("invalid medal_info")
    ELSE IF ~OptionMedalDeserialize(obj, "medal").ok THEN Err("invalid medal")
    ELSE Ok(MkGift(obj["giftName"].s, obj["uname"].s, obj["uid"].n, obj["num"].n,
                   obj["price"].n, CoinTypeDeserialize(obj["coin_type"]).val,
                   OptionMedalDeserialize(obj, "medal_info").val,
                   OptionMedalDeserialize(obj, "medal").val))

-----------------------------------------------------------------------------
(* Building gifts from payloads *)

\* The value a payload carries under a scalar member, when it is present.
GiftScalar(k) ==
    CASE k = "giftName" -> JStr(<<"h","e","a","r","t">>)
      [] k = "uname" -> JStr(<<"b","o","b">>)
      [] k = "uid" -> JNum(42)
      [] k = "num" -> JNum(3)
      [] k = "price" -> JNum(100)
      [] k = "coin_type" -> JStr(<<"g","o","l","d">>)

\* Medal objects: any subset of the four member names, each with its value.
MedalMember(k) ==
    CASE k = "name" -> JStr(<<"a">>)
      [] k = "medal_name" -> JStr(<<"b">>)
      [] k = "level" -> JNum(1)
      [] k = "medal_level" -> JNum(2)

MedalObjects ==
    { JObj([k \in D |-> MedalMember(k)]) : D \in SUBSET (MedalNameKeys \cup MedalLevelKeys) }

MedalValues == MedalObjects \cup {JNull}

\* The payload with the scalar members of P and the given medal members.
MkPayload(P, mi, m) ==
    [k \in P \cup {x \in {"medal_info"} : IsSome(mi)} \cup {x \in {"medal"} : IsSome(m)} |->
        CASE k = "medal_info" -> Unwrap(mi)
          [] k = "medal" -> Unwrap(m)
          [] OTHER -> GiftScalar(k)]

GiftPayloads ==
    { MkPayload(P, mi, m) : P \in SUBSET GiftRequiredKeys,
                            mi \in Opt(MedalValues), m \in Opt(MedalValues) }

GiftInit ==
    /\ payload \in GiftPayloads
    /\ gift_pc = "start"
    /\ gift_result = None

\* No gift is being built.
GiftIdle ==
    /\ payload = MkPayload({}, None, None)
    /\ gift_pc = "idle"
    /\ gift_result = None

\* serde_json::from_value::<GiftData>(payload)
GiftParse ==
    /\ gift_pc = "start"
    /\ gift_result' = Some(GiftDeserialize(payload))
    /\ gift_pc' = "parsed"
    /\ UNCHANGED <<payload, nonGiftVars>>

\* GiftData::default()
GiftDefault ==
    /\ gift_pc = "start"
    /\ gift_result' = Some(Ok(GiftDataDefault))
    /\ gift_pc' = "defaulted"
    /\ UNCHANGED <<payload, nonGiftVars>>

GiftNext == GiftParse \/ GiftDefault

-----------------------------------------------------------------------------
(* DanmuUser *)

\* Longest display name enumerated over NameAlphabet.
MaxNameLen == 4

NameAlphabet == {"x", "y", " "}

Names == UNION {[1..k -> NameAlphabet] : k \in 0..MaxNameLen}

MkUser(uid, name, medal) == [uid |-> uid, base |-> [name |-> name], medal |-> medal]

\* derive(Default) for DanmuUser and UserBase
DanmuUserDefault == MkUser(0, <<>>, None)

\* A constructor that returns the default user and drops the name.
DanmuUserNew_DropsName(name) == DanmuUserDefault

\* DanmuUser::new
DanmuUserNew(name) == MkUser(0, name, None)

\* write!(f, "{}", s): the characters of s appended to the formatter's buffer.
RECURSIVE WriteStr(_, _)
WriteStr(buf, s) == IF s = <<>> THEN buf ELSE WriteStr(Append(buf, Head(s)), Tail(s))

\* impl Display for DanmuUser, through to_string()
DanmuUserDisplay(u) == WriteStr(<<>>, u.base.name)

UserInit ==
    /\ name_in \in Names
    /\ user_pc = "start"
    /\ user = None
    /\ shown = None

UserIdle ==
    /\ name_in = <<>>
    /\ user_pc = "idle"
    /\ user = None
    /\ shown = None

\* let user = DanmuUser::new(name);
UserNew ==
    /\ user_pc = "start"
    /\ user' = Some(DanmuUserNew(name_in))
    /\ user_pc' = "built"
    /\ UNCHANGED <<name_in, shown, nonUserVars>>

\* user.to_string()
UserShow ==
    /\ user_pc = "built"
    /\ shown' = Some(DanmuUserDisplay(Unwrap(user)))
    /\ user_pc' = "shown"
    /\ UNCHANGED <<name_in, user, nonUserVars>>

UserNext == UserNew \/ UserShow

-----------------------------------------------------------------------------
(* BiliMessage: one constructor per variant of the enum *)

\* Largest counter value enumerated for OnlineRankCount.
MaxCount == 9

ShortNames == UNION {[1..k -> NameAlphabet] : k \in 0..1}

SampleGift ==
    MkGift(<<"h","e","a","r","t">>, <<"b","o","b">>, 42, 3, 100, "Gold", None,
           Some(MkMedal(<<"a">>, 1)))

RawValues == {JNull, JNum(1), JStr(<<"x">>), JObj([k \in {"cmd"} |-> JStr(<<"y">>)])}

BiliDanmu(u, text) == [tag |-> "Danmu", user |-> u, text |-> text]
BiliGift(u, gift) == [tag |-> "Gift", user |-> u, gift |-> gift]
BiliOnlineRankCount(count, online_count) ==
    [tag |-> "OnlineRankCount", count |-> count, online_count |-> online_count]
BiliRaw(value) == [tag |-> "Raw", value |-> value]
\* #[deprecated] only warns at the use site: the variant is still a value.
BiliUnsupported == [tag |-> "Unsupported"]

EventInit == event = None

EventIdle == event = None

EmitDanmu ==
    /\ \E n \in ShortNames, text \in ShortNames :
         event' = Some(BiliDanmu(DanmuUserNew(n), text))
    /\ UNCHANGED nonEventVars

EmitGift ==
    /\ \E n \in ShortNames, g \in {GiftDataDefault, SampleGift} :
         event' = Some(BiliGift(n, g))
    /\ UNCHANGED nonEventVars

EmitOnlineRankCount ==
    /\ \E c \in 0..MaxCount, o \in 0..MaxCount :
         event' = Some(BiliOnlineRankCount(c, o))
    /\ UNCHANGED nonEventVars

EmitRaw ==
    /\ \E v \in RawValues : event' = Some(BiliRaw(v))
    /\ UNCHANGED nonEventVars

EmitUnsupported ==
    /\ event' = Some(BiliUnsupported)
    /\ UNCHANGED nonEventVars

EventNext == EmitDanmu \/ EmitGift \/ EmitOnlineRankCount \/ EmitRaw \/ EmitUnsupported

-----------------------------------------------------------------------------
(* MsgHead and the frame-header parser *)

\* An unsigned 32-bit value as two 16-bit limbs (TLC's integers are signed
\* 32-bit); a narrower value has its upper limb 0.
U32(hi, lo) == [hi |-> hi, lo |-> lo]

\* Numeric order on limb pairs.
Geq(a, b) == a.hi > b.hi \/ (a.hi = b.hi /\ a.lo >= b.lo)

HeadFields == {"pack_len", "raw_header_size", "ver", "operation", "seq_id"}

\* MsgHead with pack_len declared u16.
MsgHeadBits_NarrowPackLen ==
    [f \in HeadFields |->
        CASE f = "pack_len" -> 16 [] f = "raw_header_size" -> 16 [] f = "ver" -> 16
          [] f = "operation" -> 32 [] f = "seq_id" -> 32]

\* The width in bits of each field's declared type: u32, u16, u16, u32, u32.
MsgHeadBits ==
    [f \in HeadFields |->
        CASE f = "pack_len" -> 32 [] f = "raw_header_size" -> 16 [] f = "ver" -> 16
          [] f = "operation" -> 32 [] f = "seq_id" -> 32]

\* A value stored in an unsigned field of the given width: reduced modulo
\* 2^bits.
StoreAs(bits, v) ==
    IF bits >= 32 THEN v
    ELSE IF bits > 16 THEN U32(v.hi % 2^(bits - 16), v.lo)
    ELSE U32(0, v.lo % 2^bits)

\* The wire header: offset and width in bytes of each field, big-endian.
WireOffset(f) ==
    CASE f = "pack_len" -> 0 [] f = "raw_header_size" -> 4 [] f = "ver" -> 6
      [] f = "operation" -> 8 [] f = "seq_id" -> 12

WireWidth(f) ==
    CASE f = "pack_len" -> 4 [] f = "raw_header_size" -> 2 [] f = "ver" -> 2
      [] f = "operation" -> 4 [] f = "seq_id" -> 4

HeaderLength == 16

WireField(w, f) == SubSeq(w, WireOffset(f) + 1, WireOffset(f) + WireWidth(f))

\* The unsigned value of up to four big-endian bytes.
BigEndian(bytes) ==
    LET b == [i \in 1..4 |-> IF i <= 4 - Len(bytes) THEN 0 ELSE bytes[i - (4 - Len(bytes))]]
    IN U32(b[1] * 256 + b[2], b[3] * 256 + b[4])

\* Each wire field read into the MsgHead field of its name.
DecodeFields(w) == [f \in HeadFields |-> StoreAs(MsgHeadBits[f], BigEndian(WireField(w, f)))]

\* A header check that looks at the header length only.
HeaderValid_LengthOnly(w) ==
    BigEndian(WireField(w, "raw_header_size")) = U32(0, HeaderLength)

\* The header invariant, checked on the wire values: the header length is 16
\* and the packet length is at least the header length.
HeaderValid(w) ==
    /\ BigEndian(WireField(w, "raw_header_size")) = U32(0, HeaderLength)
    /\ Geq(BigEndian(WireField(w, "pack_len")), BigEndian(WireField(w, "raw_header_size")))

ByteValues == {0, 16, 255}

WireHeaders ==
    { pl \o hs \o ver \o op \o sq :
        pl \in [1..4 -> ByteValues], hs \in [1..2 -> ByteValues],
        ver \in {<<0, 0>>, <<0, 2>>, <<255, 255>>},
        op \in {<<0, 0, 0, 5>>, <<255, 255, 255, 255>>},
        sq \in {<<0, 0, 0, 1>>, <<255, 0, 0, 0>>} }

NoFields == [f \in HeadFields |-> U32(0, 0)]

HeadInit ==
    /\ wire_hdr \in WireHeaders
    /\ head_pc = "start"
    /\ hdr_fields = NoFields
    /\ head = None

HeadIdle ==
    /\ wire_hdr = <<>>
    /\ head_pc = "idle"
    /\ hdr_fields = NoFields
    /\ head = None

\* The parser on one header: decode the fields, then return the MsgHead or
\* reject the frame as corrupt.
HeadParse ==
    /\ head_pc = "start"
    /\ hdr_fields' = DecodeFields(wire_hdr)
    /\ IF HeaderValid(wire_hdr)
         THEN head' = Some(DecodeFields(wire_hdr)) /\ head_pc' = "accepted"
         ELSE head' = None /\ head_pc' = "rejected"
    /\ UNCHANGED <<wire_hdr, nonHeadVars>>

HeadNext == HeadParse

-----------------------------------------------------------------------------
(* The connection state machine *)

\* Consecutive missed heartbeat replies that make the connection stale.
MaxMissed == 3

\* Connection attempts after which the model stops reconnecting.
MaxAttempts == 3

\* Events after which the model stops counting emissions.
MaxEmitted == 2

AuthReplyCodes == {0, 1}

NoPacket == [op |-> "NONE", code |-> 0]

\* An AUTH_REPLY is accepted whatever its code.
AuthReplySucceeded_AnyCode(code) == TRUE

\* The success code of an AUTH_REPLY is 0.
AuthReplySucceeded(code) == code = 0

ConnInit ==
    /\ conn = "Disconnected"
    /\ prev = "Disconnected"
    /\ last_step = "Init"
    /\ last_in = NoPacket
    /\ missed = 0
    /\ attempts = 0
    /\ emitted = 0

ConnIdle == ConnInit

Step(name) ==
    /\ prev' = conn
    /\ last_step' = name

\* connect(): leave Disconnected for the first attempt.
Connect ==
    /\ conn = "Disconnected"
    /\ last_step # "Shutdown"
    /\ attempts < MaxAttempts
    /\ conn' = "Connecting"
    /\ attempts' = attempts + 1
    /\ Step("Connect")
    /\ UNCHANGED <<last_in, missed, emitted, nonConnVars>>

\* Transport handshake succeeded: send one AUTH frame, start the auth timer.
HandshakeOk ==
    /\ conn = "Connecting"
    /\ conn' = "Authenticating"
    /\ Step("HandshakeOk")
    /\ UNCHANGED <<last_in, missed, attempts, emitted, nonConnVars>>

\* Transport closed or failed while connecting, authenticating or live.
TransportError ==
    /\ conn \in {"Connecting", "Authenticating", "Live"}
    /\ conn' = "ReconnectPending"
    /\ Step("TransportError")
    /\ UNCHANGED <<last_in, missed, attempts, emitted, nonConnVars>>

\* An AUTH_REPLY packet arrives.
OnAuthReply ==
    /\ conn \in {"Authenticating", "Live"}
    /\ \E code \in AuthReplyCodes :
         /\ last_in' = [op |-> "AUTH_REPLY", code |-> code]
         /\ IF conn = "Authenticating"
              THEN /\ conn' = (IF AuthReplySucceeded(code) THEN "Live" ELSE "ReconnectPending")
                   /\ missed' = 0
                   /\ emitted' = emitted
              ELSE \* Live: any other operation is forwarded as a Raw event
                   /\ conn' = conn
                   /\ missed' = missed
                   /\ emitted' = IF emitted < MaxEmitted THEN emitted + 1 ELSE emitted
    /\ Step("OnAuthReply")
    /\ UNCHANGED <<attempts, nonConnVars>>

\* The auth timer fires before a successful AUTH_REPLY.
AuthTimeout ==
    /\ conn = "Authenticating"
    /\ conn' = "ReconnectPending"
    /\ Step("AuthTimeout")
    /\ UNCHANGED <<last_in, missed, attempts, emitted, nonConnVars>>

\* A HEARTBEAT_REPLY packet arrives: ignored before auth, resets the missed
\* counter when live.
OnHeartbeatReply ==
    /\ conn \in {"Authenticating", "Live"}
    /\ last_in' = [op |-> "HEARTBEAT_REPLY", code |-> 0]
    /\ missed' = IF conn = "Live" THEN 0 ELSE missed
    /\ conn' = conn
    /\ Step("OnHeartbeatReply")
    /\ UNCHANGED <<attempts, emitted, nonConnVars>>

\* A SEND_MSG / SEND_MSG_ALL packet arrives: dropped before auth, mapped and
\* emitted when live.
OnSendMsg ==
    /\ conn \in {"Authenticating", "Live"}
    /\ last_in' = [op |-> "SEND_MSG", code |-> 0]
    /\ emitted' = IF conn = "Live" /\ emitted < MaxEmitted THEN emitted + 1 ELSE emitted
    /\ conn' = conn
    /\ Step("OnSendMsg")
    /\ UNCHANGED <<missed, attempts, nonConnVars>>

\* The heartbeat interval elapses: send a heartbeat; the connection is stale
\* once MaxMissed intervals in a row went unanswered.
HeartbeatTick ==
    /\ conn = "Live"
    /\ IF missed + 1 >= MaxMissed
         THEN conn' = "ReconnectPending" /\ missed' = 0
         ELSE conn' = conn /\ missed' = missed + 1
    /\ Step("HeartbeatTick")
    /\ UNCHANGED <<last_in, attempts, emitted, nonConnVars>>

\* The backoff delay elapses: a fresh attempt.
Backoff ==
    /\ conn = "ReconnectPending"
    /\ attempts < MaxAttempts
    /\ conn' = "Connecting"
    /\ attempts' = attempts + 1
    /\ Step("Backoff")
    /\ UNCHANGED <<last_in, missed, emitted, nonConnVars>>

\* Explicit shutdown: terminal.
Shutdown ==
    /\ conn # "Disconnected"
    /\ conn' = "Disconnected"
    /\ Step("Shutdown")
    /\ UNCHANGED <<last_in, missed, attempts, emitted, nonConnVars>>

ConnNext ==
    \/ Connect \/ HandshakeOk \/ TransportError \/ OnAuthReply \/ AuthTimeout
    \/ OnHeartbeatReply \/ OnSendMsg \/ HeartbeatTick \/ Backoff \/ Shutdown

-----------------------------------------------------------------------------
(* Specifications *)

InitAuth == AuthInit /\ GiftIdle /\ UserIdle /\ EventIdle /\ HeadIdle /\ ConnIdle
InitGift == GiftInit /\ AuthIdle /\ UserIdle /\ EventIdle /\ HeadIdle /\ ConnIdle
InitUser == UserInit /\ AuthIdle /\ GiftIdle /\ EventIdle /\ HeadIdle /\ ConnIdle
InitEvent == EventInit /\ AuthIdle /\ GiftIdle /\ UserIdle /\ HeadIdle /\ ConnIdle
InitHead == HeadInit /\ AuthIdle /\ GiftIdle /\ UserIdle /\ EventIdle /\ ConnIdle
InitConn == ConnInit /\ AuthIdle /\ GiftIdle /\ UserIdle /\ EventIdle /\ HeadIdle

SpecAuth == InitAuth /\ [][AuthNext]_vars
SpecGift == InitGift /\ [][GiftNext]_vars
SpecUser == InitUser /\ [][UserNext]_vars
SpecEvent == InitEvent /\ [][EventNext]_vars
SpecHead == InitHead /\ [][HeadNext]_vars
SpecConn == InitConn /\ [][ConnNext]_vars

-----------------------------------------------------------------------------
(* Properties of the auth pipeline *)

IsDecimal(s) == s # <<>> /\ \A i \in 1..Len(s) : ToDigit(s[i]) >= 0

\* The number a digit string denotes, by positional weight.
DecimalValue(s) ==
    LET RECURSIVE Sum(_)
        Sum(i) == IF i > Len(s) THEN 0
                  ELSE ToDigit(s[i]) * 10^(Len(s) - i) + Sum(i + 1)
    IN Sum(1)

\* The entries of m under the three keys AuthMessage::from reads.
OnlyAuthKeys(m) == [k \in DOMAIN m \cap AuthKeys |-> m[k]]

\* A string that denotes an unsigned integer of the u64 width: digits, with
\* at most one leading '+'.
DenotesU64(s) ==
    LET body == IF s # <<>> /\ Head(s) = "+" THEN Tail(s) ELSE s
    IN IsDecimal(body) /\ DecimalValue(body) <= U64Max

\* C1 as stated: for any map holding decimal strings under "uid" and
\* "room_id" and a string under "token", AuthMessage::from returns the request
\* with uid and roomid the numeric values of the two strings, key the token,
\* and protover, platform, type the constants 3, "web", 2.
C1_AnyDecimalStrings ==
    (auth_pc # "start" /\ AuthKeys \subseteq DOMAIN map
        /\ IsDecimal(map["uid"]) /\ IsDecimal(map["room_id"]))
    => auth = Some(MkAuth(DecimalValue(map["uid"]), DecimalValue(map["room_id"]),
                          3, <<"w","e","b">>, 2, map["token"]))

\* C1 amended: the same, for decimal strings whose values fit the u64 width
\* (a decimal string above the maximum makes parse() fail and from panic).
C1_DecimalStringsInRange ==
    (auth_pc # "start" /\ AuthKeys \subseteq DOMAIN map
        /\ IsDecimal(map["uid"]) /\ IsDecimal(map["room_id"])
        /\ DecimalValue(map["uid"]) <= U64Max
        /\ DecimalValue(map["room_id"]) <= U64Max)
    => /\ auth_pc # "panicked"
       /\ auth = Some(MkAuth(DecimalValue(map["uid"]), DecimalValue(map["room_id"]),
                             3, <<"w","e","b">>, 2, map["token"]))

\* The fixture of tests::test_auth_message_from_map has been built.
C1_Witness ==
    /\ auth_pc = "built"
    /\ map = MkMap(Some(<<"1","2","3","4","5">>), Some(<<"6","7","8","9","0">>),
                   Some(TestToken), None)
    /\ Unwrap(auth).uid = 12345
    /\ Unwrap(auth).roomid = 67890

\* C2 as stated: the serialized auth payload is a JSON object with exactly
\* the six members uid, roomid, protover, platform, type and key, and
\* deserializing it gives back the same AuthMessage.
C2_SixFieldsRoundTrip ==
    /\ auth_pc \in {"sent", "read"}
         => DOMAIN Unwrap(auth_wire) = {"uid", "roomid", "protover", "platform", "type", "key"}
    /\ auth_pc = "read" => auth_back = Some(Ok(Unwrap(auth)))

\* C10: AuthMessage::from returns a request if and only if the map has all of
\* "uid", "room_id", "token" and the first two denote u64 integers; otherwise
\* it panics and no AuthMessage exists; entries under other keys do not change
\* the outcome; the map is never modified.
C10_ReturnsOrPanics ==
    /\ [](auth_pc # "start" =>
            /\ auth_pc # "panicked" <=>
                  (/\ AuthKeys \subseteq DOMAIN map
                   /\ DenotesU64(map["uid"])
                   /\ DenotesU64(map["room_id"]))
            /\ auth_pc = "panicked" <=> auth = None
            /\ auth = (IF AuthMessageFrom(OnlyAuthKeys(map)).ok
                       THEN Some(AuthMessageFrom(OnlyAuthKeys(map)).val)
                       ELSE None))
    /\ [][map' = map]_vars

\* from has panicked on an out-of-range uid in a map that also carries an
\* entry under another key.
C10_Witness ==
    /\ auth_pc = "panicked"
    /\ DOMAIN map = AuthKeys \cup {"lang"}
    /\ IsDecimal(map["uid"])
    /\ DecimalValue(map["uid"]) > U64Max
    /\ auth = None

-----------------------------------------------------------------------------
(* Properties of gift building *)

MedalKeys == {"medal", "medal_info"}

\* A medal object: a string under exactly one of name / medal_name and a
\* number under exactly one of level / medal_level.
IsMedalObject(j) ==
    /\ j.t = "obj"
    /\ ("name" \in DOMAIN j.o) # ("medal_name" \in DOMAIN j.o)
    /\ ("level" \in DOMAIN j.o) # ("medal_level" \in DOMAIN j.o)

\* The medal such an object denotes.
MedalOf(j) ==
    MkMedal(IF "name" \in DOMAIN j.o THEN j.o["name"].s ELSE j.o["medal_name"].s,
            IF "level" \in DOMAIN j.o THEN j.o["level"].n ELSE j.o["medal_level"].n)

\* C3: a payload with a medal object under "medal" and no "medal_info" gives a
\* GiftData with medal set to it and medal_info absent, symmetrically for
\* "medal_info" alone, and with both present each field is set from its own
\* key; a medal object may name its fields name/level or
\* medal_name/medal_level.
C3_FallbackKeyLaw ==
    gift_pc = "parsed" =>
      LET r == Unwrap(gift_result) IN
      /\ (/\ {"giftName", "uname", "uid", "num", "price", "coin_type"} \subseteq DOMAIN payload
          /\ \A k \in MedalKeys \cap DOMAIN payload : IsMedalObject(payload[k]))
         => r.ok
      /\ r.ok => \A k \in MedalKeys :
            /\ k \notin DOMAIN payload => r.val[k] = None
            /\ (k \in DOMAIN payload /\ IsMedalObject(payload[k]))
                 => r.val[k] = Some(MedalOf(payload[k]))

\* A gift was built from a payload with a medal_name/medal_level object under
\* "medal" and no "medal_info".
C3_Witness ==
    /\ gift_pc = "parsed"
    /\ "medal" \in DOMAIN payload
    /\ "medal_info" \notin DOMAIN payload
    /\ DOMAIN payload["medal"].o = {"medal_name", "medal_level"}
    /\ Unwrap(gift_result).ok
    /\ Unwrap(gift_result).val.medal = Some(MkMedal(<<"b">>, 2))
    /\ Unwrap(gift_result).val.medal_info = None

\* C4 as stated: whatever members the payload lacks, building the gift
\* succeeds and every absent field takes its default.
C4_AbsentFieldsDefault ==
    (gift_pc = "parsed" /\ \A k \in MedalKeys \cap DOMAIN payload : IsMedalObject(payload[k]))
    => LET r == Unwrap(gift_result) IN
       /\ r.ok
       /\ "giftName" \notin DOMAIN payload => r.val.gift_name = <<>>
       /\ "uname" \notin DOMAIN payload => r.val.uname = <<>>
       /\ "uid" \notin DOMAIN payload => r.val.uid = 0
       /\ "num" \notin DOMAIN payload => r.val.num = 0
       /\ "price" \notin DOMAIN payload => r.val.price = 0
       /\ "coin_type" \notin DOMAIN payload => r.val.coin_type = "Silver"
       /\ "medal_info" \notin DOMAIN payload => r.val.medal_info = None
       /\ "medal" \notin DOMAIN payload => r.val.medal = None

-----------------------------------------------------------------------------
(* Properties of DanmuUser *)

\* C5: DanmuUser::new(name), for every name including the empty one, returns
\* a user with uid 0, display name exactly the given name and no medal, and
\* the user displays as the given name.
C5_NewFromBareName ==
    /\ user_pc \in {"built", "shown"} =>
         /\ Unwrap(user).uid = 0
         /\ Unwrap(user).base.name = name_in
         /\ Unwrap(user).medal = None
    /\ user_pc = "shown" => shown = Some(name_in)

\* A user built from a non-empty name containing a space has been displayed.
C5_Witness ==
    /\ user_pc = "shown"
    /\ name_in = <<"x", " ", "y">>
    /\ Unwrap(user).uid = 0
    /\ shown = Some(<<"x", " ", "y">>)

-----------------------------------------------------------------------------
(* Properties of BiliMessage *)

\* C6 as stated: every event value that can be constructed is one of exactly
\* four variants, Danmu, Gift, OnlineRankCount and Raw.
C6_FourVariants ==
    IsSome(event) => Unwrap(event).tag \in {"Danmu", "Gift", "OnlineRankCount", "Raw"}

-----------------------------------------------------------------------------
(* Properties of MsgHead *)

\* C7: every MsgHead the parser returns has raw_header_size = 16 and
\* pack_len >= raw_header_size; a header that breaks either is rejected and
\* no MsgHead is returned for it.
C7_HeaderInvariant ==
    /\ IsSome(head) =>
         /\ Unwrap(head).raw_header_size = U32(0, 16)
         /\ Geq(Unwrap(head).pack_len, Unwrap(head).raw_header_size)
    /\ (/\ head_pc \in {"accepted", "rejected"}
        /\ \/ hdr_fields["raw_header_size"] # U32(0, 16)
           \/ ~Geq(hdr_fields["pack_len"], hdr_fields["raw_header_size"]))
       => (head = None /\ head_pc = "rejected")

\* A header of length 16 whose packet length is 0 has been rejected.
C7_Witness ==
    /\ head_pc = "rejected"
    /\ hdr_fields["raw_header_size"] = U32(0, 16)
    /\ hdr_fields["pack_len"] = U32(0, 0)
    /\ head = None

\* The width in bytes the wire format gives each header field.
C9_WireBytes(f) ==
    CASE f = "pack_len" -> 4 [] f = "raw_header_size" -> 2 [] f = "ver" -> 2
      [] f = "operation" -> 4 [] f = "seq_id" -> 4

\* C9: the MsgHead fields are unsigned integers of 4, 2, 2, 4 and 4 bytes,
\* the widths sum to the header length 16, and every value of a wire field is
\* held by its MsgHead field without wrapping or truncation.
C9_FieldsHoldWireValues ==
    /\ \A f \in HeadFields : MsgHeadBits[f] = 8 * C9_WireBytes(f)
    /\ MsgHeadBits["pack_len"] + MsgHeadBits["raw_header_size"] + MsgHeadBits["ver"]
         + MsgHeadBits["operation"] + MsgHeadBits["seq_id"] = 8 * 16
    /\ head_pc \in {"accepted", "rejected"} =>
         \A f \in HeadFields : hdr_fields[f] = BigEndian(WireField(wire_hdr, f))
    /\ IsSome(head) =>
         \A f \in HeadFields : Unwrap(head)[f] = BigEndian(WireField(wire_hdr, f))

\* A header whose packet length and header length are the largest wire
\* values has been decoded.
C9_Witness ==
    /\ head_pc = "rejected"
    /\ WireField(wire_hdr, "pack_len") = <<255, 255, 255, 255>>
    /\ hdr_fields["pack_len"] = U32(65535, 65535)
    /\ hdr_fields["raw_header_size"] = U32(0, 65535)

-----------------------------------------------------------------------------
(* Properties of the connection state machine *)

\* C8: an AUTH_REPLY with a failure code received in Authenticating moves the
\* connection directly to ReconnectPending, and Live is entered only from
\* Authenticating by an AUTH_REPLY with the success code.
C8_AuthFailureNeverLive ==
    [][ /\ (conn = "Authenticating" /\ last_step' = "OnAuthReply" /\ last_in'.code # 0)
           => conn' = "ReconnectPending"
        /\ (conn # "Live" /\ conn' = "Live")
           => /\ conn = "Authenticating"
              /\ last_step' = "OnAuthReply"
              /\ last_in' = [op |-> "AUTH_REPLY", code |-> 0] ]_vars

\* A failed AUTH_REPLY has just taken the connection from Authenticating to
\* ReconnectPending.
C8_Witness ==
    /\ conn = "ReconnectPending"
    /\ prev = "Authenticating"
    /\ last_step = "OnAuthReply"
    /\ last_in = [op |-> "AUTH_REPLY", code |-> 1]

====
